---- MODULE Spec2Model ----
(***************************************************************************)
(* A model of three parts of tk-multi-publish2:                            *)
(*   - the task node of the publish tree (tree_node_task.py),              *)
(*   - the Mari mipmap publish hook (hooks/mari/publish_mipmaps.py),       *)
(*   - the plugin lifecycle run over the tasks of the tree, with the       *)
(*     generic local test plugin (tests/.../generic_local.py).             *)
(* Each part has its own specification: SpecTree, SpecMip, SpecRun (and    *)
(* SpecRunFair, the run under the fairness of its single thread).          *)
(***************************************************************************)
EXTENDS Integers, Sequences, FiniteSets, TLC

VARIABLES
    \* ---- publish tree: task nodes ----
    tasks,             \* node -> the Task it was constructed with (enabled, active, plugin)
    created,           \* the set of task nodes constructed so far
    check_state,       \* node -> Qt check state of the node
    checkbox_enabled,  \* node -> whether the node's checkbox widget is enabled
    lastCall,          \* the last call made on the tree (history)
    \* ---- pipeline configuration and item local scope ----
    publish_plugins,   \* parent.settings["publish_plugins"]: sequence of [name, hook]
    local_props,       \* item -> plugin key -> that plugin's local properties on the item
    \* ---- mipmap hook: publish_files / create_mipmaps_for_seq ----
    target_seq_path,   \* the publish path handed to the hook
    disk,              \* frame numbers of the upstream sequence's files on disk
    pc,                \* position of the running call
    caller,            \* "publish_files" or "direct" (create_mipmaps_for_seq called alone)
    dep_result,        \* what _get_dependency_paths did
    source_paths,      \* source_paths of create_mipmaps_for_seq
    idx,               \* index of the next source of the loop
    mipmap_paths,      \* the list the loop builds
    conv_log,          \* every _create_mipmap call that returned: [src, tgt, ok] (history)
    caught,            \* the exception publish_files caught (history)
    result,            \* what the call did: returned a list, or raised
    \* ---- lifecycle run ----
    env_test,          \* "TEST_LOCAL_PROPERTIES" in os.environ
    phase,             \* the phase the run is in
    todo,              \* the tasks the phase has still to visit
    task_state,        \* task -> lifecycle state
    flags,             \* task -> [checked, enabled]
    fault,             \* task -> the fault of the task's own phase, if any (history)
    val_read,          \* task -> the local property its validate read (history)
    resolved           \* item -> what the mipmap task's dependency resolution did

treeVars == <<tasks, created, check_state, checkbox_enabled, lastCall>>
cfgVars == <<publish_plugins, local_props>>
mipVars == <<target_seq_path, disk, pc, caller, dep_result, source_paths, idx,
             mipmap_paths, conv_log, caught, result>>

runVars == <<env_test, phase, todo, task_state, flags, fault, val_read, resolved>>

vars == <<treeVars, cfgVars, mipVars, runVars>>

\* ------------------------------------------------------------------------
\* Bounds
NumNodes == 3
NumPlugins == 2
MaxPlugins == 2
MaxSources == 3
NumItems == 2

Nodes == 1..NumNodes
Items == 1..NumItems

\* ------------------------------------------------------------------------
\* Qt.CheckState, as the checkbox of a task node and the cascade from the nodes
\* above hand it to set_check_state: a task node has no children, so it is never
\* asked to be partially checked.
Unchecked == "Unchecked"
Checked == "Checked"
CheckStates == {Unchecked, Checked}

\* The plugin of the task of node n: nodes 1, 1 + NumPlugins, ... share a plugin,
\* so that one plugin has tasks at several places of the tree.
PluginOf(n) == ((n - 1) % NumPlugins) + 1

\* task.plugin.name
PluginName(p) == <<"plugin", p>>

\* The Task instances a node can be constructed with.
TaskSet(n) == [enabled : BOOLEAN, active : BOOLEAN, plugin : {PluginOf(n)}]

NoTask == [enabled |-> TRUE, active |-> TRUE, plugin |-> 0]
NoCall == [op |-> "none", node |-> 0, state |-> Unchecked, all |-> FALSE, ret |-> <<>>]

\* TreeNodeBase.set_check_state: the node takes the state.
TreeNodeBase_set_check_state(cs, n, state) == [cs EXCEPT ![n] = state]

\* TreeNodeBase.checked: the node is checked.
checked(cs, n) == cs[n] = Checked

\* set_check_state, apply_to_all_plugins = False: lines 68-74.
SetCheckStateOne(tk, cs, n, state) ==
    LET st == IF ~tk[n].enabled /\ ~tk[n].active THEN Unchecked ELSE state
    IN  TreeNodeBase_set_check_state(cs, n, st)

\* PublishTreeWidget.set_check_state_for_all_plugins: every task node of the
\* tree whose task has this plugin gets set_check_state(state).
set_check_state_for_all_plugins(tk, cr, cs, plugin, state) ==
    [m \in Nodes |->
        IF m \in cr /\ tk[m].plugin = plugin
        THEN SetCheckStateOne(tk, cs, m, state)[m]
        ELSE cs[m]]

\* Mutant: the disabled-and-inactive floor is dropped.
set_check_state_NoFloor(tk, cr, cs, n, state, apply_to_all_plugins) ==
    IF apply_to_all_plugins
    THEN [m \in Nodes |-> IF m \in cr /\ tk[m].plugin = tk[n].plugin THEN state ELSE cs[m]]
    ELSE TreeNodeBase_set_check_state(cs, n, state)

\* Mutant: apply_to_all_plugins is ignored, only the calling node is set.
set_check_state_OnlySelf(tk, cr, cs, n, state, apply_to_all_plugins) ==
    SetCheckStateOne(tk, cs, n, state)

\* TreeNodeTask.set_check_state
set_check_state(tk, cr, cs, n, state, apply_to_all_plugins) ==
    IF apply_to_all_plugins
    THEN set_check_state_for_all_plugins(tk, cr, cs, tk[n].plugin, state)
    ELSE SetCheckStateOne(tk, cs, n, state)

\* Mutant: the task's enabled flag is not and-ed in.
set_check_enabled_NoTaskFlag(tk, n, state) == state

\* TreeNodeTask.set_check_enabled: the value given to checkbox.setEnabled
set_check_enabled(tk, n, state) == state /\ tk[n].enabled

\* Mutant: the summary names the plugin whatever the check state.
create_summary_Always(tk, cs, n) == <<PluginName(tk[n].plugin)>>

\* TreeNodeTask.create_summary
create_summary(tk, cs, n) ==
    IF checked(cs, n) THEN <<PluginName(tk[n].plugin)>> ELSE <<>>


\* ------------------------------------------------------------------------
\* Python values of the hooks

\* A file path: its name stem, its frame number (<<>> when the name carries none,
\* <<f>> when it carries frame f) and whether it holds a frame field (a template
\* such as out.####.tif).
Path(stem, frame, spec) == [stem |-> stem, frame |-> frame, spec |-> spec]

\* None, where a path is expected.
NonePath == Path("None", <<>>, FALSE)

\* Pieces of an exception's message: literal text, or a formatted value.
Text(s) == [t |-> "text", s |-> s, p |-> NonePath, item |-> 0]
Fmt(p) == [t |-> "path", s |-> "", p |-> p, item |-> 0]
ItemName(i) == [t |-> "item.name", s |-> "", p |-> NonePath, item |-> i]

NoExc == [type |-> "none", msg |-> <<>>]
NoResult == [kind |-> "none", value |-> <<>>, exc |-> NoExc]
Return(v) == [kind |-> "return", value |-> v, exc |-> NoExc]
Raise(type, msg) == [kind |-> "raise", value |-> <<>>, exc |-> [type |-> type, msg |-> msg]]

Min(S) == CHOOSE x \in S : \A y \in S : x <= y

RECURSIVE SortedSeq(_)
SortedSeq(S) == IF S = {} THEN <<>> ELSE <<Min(S)>> \o SortedSeq(S \ {Min(S)})

SeqsUpTo(S, n) == UNION {[1..k -> S] : k \in 0..n}

Range(f) == {f[i] : i \in DOMAIN f}

\* ------------------------------------------------------------------------
\* Pipeline configuration

INPUT_PLUGIN_NAME == "Publish Textures"
MIPMAPS_PLUGIN_NAME == "Publish Mipmap from Mari Textures"
LOCAL_PLUGIN_NAME == "Publish Plugin that runs LOCALLY"

PluginNames == {INPUT_PLUGIN_NAME, MIPMAPS_PLUGIN_NAME, LOCAL_PLUGIN_NAME}

\* The hook setting of the entry configured under a name; the hook value is the
\* key of that plugin's local properties on an item.
HookOf(name) ==
    CASE name = INPUT_PLUGIN_NAME -> "publish_textures.py"
      [] name = MIPMAPS_PLUGIN_NAME -> "publish_mipmaps.py"
      [] OTHER -> "generic_local.py"

Hooks == {HookOf(name) : name \in PluginNames}

Entry(name) == [name |-> name, hook |-> HookOf(name)]

\* A pipeline configuration lists each plugin name at most once.
Configs_All ==
    {c \in SeqsUpTo({Entry(name) : name \in PluginNames}, Cardinality(PluginNames)) :
        \A i, j \in DOMAIN c : c[i].name = c[j].name => i = j}

\* The configurations publish_files is run under.
Configs == {c \in Configs_All : Len(c) <= MaxPlugins}

\* The local properties of one plugin on one item: absent until the plugin
\* writes, then a mapping; a property never written reads as None.
NoneValue == "None"
NoScope == [present |-> FALSE, publish_path |-> NonePath, plugin_name |-> NoneValue]
EmptyScope == [NoScope EXCEPT !.present = TRUE]

\* ------------------------------------------------------------------------
\* publish_mipmaps.py

\* key = None
NoneKey == "None"

\* not key
KeyFalsy(key) == key = NoneKey \/ key = ""

\* The loop of _get_dependency_paths: the hook of the first entry with the name.
FindKey(plugins) ==
    LET hits == {i \in DOMAIN plugins : plugins[i].name = INPUT_PLUGIN_NAME}
    IN  IF hits = {} THEN NoneKey ELSE plugins[Min(hits)].hook

\* Mutant: a missing upstream plugin gives a None-valued result, no error.
get_dependency_paths_Silent(plugins, props) ==
    LET key == FindKey(plugins)
    IN  IF KeyFalsy(key) THEN Return(<<NonePath>>)
        ELSE IF ~props[key].present
        THEN Raise("AttributeError", <<Text("'NoneType' object has no attribute 'get'")>>)
        ELSE Return(<<props[key].publish_path>>)

\* Mutant: the local properties are read under the plugin's name, not its hook.
get_dependency_paths_OwnScope(plugins, props) ==
    LET key == HookOf(MIPMAPS_PLUGIN_NAME)
    IN  IF ~props[key].present
        THEN Raise("AttributeError", <<Text("'NoneType' object has no attribute 'get'")>>)
        ELSE Return(<<props[key].publish_path>>)

\* _get_dependency_paths(task_settings, item); props is item._local_properties
get_dependency_paths(plugins, props) ==
    LET key == FindKey(plugins)
    IN  IF KeyFalsy(key)
        THEN Raise("TankError", <<Text("Publish Mipmaps needs the output of"),
                                  Text(INPUT_PLUGIN_NAME), Text("to run")>>)
        ELSE IF ~props[key].present
        THEN Raise("AttributeError", <<Text("'NoneType' object has no attribute 'get'")>>)
        ELSE Return(<<props[key].publish_path>>)

\* publisher.util.get_frame_number(path): the frame number of the name, or None
get_frame_number(path) == path.frame

\* if frame: None and 0 are false
Truthy(frame) == frame # <<>> /\ frame[1] # 0

\* publisher.util.get_path_for_frame(path, frame): the path with the frame in
\* its frame field, or None when it has no frame field
get_path_for_frame(path, frame) ==
    IF path.spec THEN Path(path.stem, frame, FALSE) ELSE NonePath

\* publisher.util.get_frame_sequence_path(path): a true value for a sequence
IsSequence(path) == path.spec

\* publisher.util.get_sequence_path_files(path): the sequence's files on disk
get_sequence_path_files(path, frames) ==
    [i \in 1..Cardinality(frames) |-> Path(path.stem, <<SortedSeq(frames)[i]>>, FALSE)]

\* The target of one source in create_mipmaps_for_seq, or the error raised.
target_path_for(source_path, target) ==
    LET frame == get_frame_number(source_path)
    IN  IF Truthy(frame)
        THEN LET target_path == get_path_for_frame(target, frame)
             IN  IF target_path = NonePath
                 THEN Raise("TankError",
                            <<Text("Source path:"), Fmt(source_path),
                              Text("contains a frame number, but target path:"),
                              Fmt(target_path), Text("does not.")>>)
                 ELSE Return(<<target_path>>)
        ELSE Return(<<target>>)

\* Mutant: the path of a failed conversion is listed too.
collect_mipmap_Always(paths, target_path, ok) == Append(paths, target_path)

\* if not self._create_mipmap(...): warning; else: mipmap_paths.append(target_path)
collect_mipmap(paths, target_path, ok) ==
    IF ok THEN Append(paths, target_path) ELSE paths

\* Mutant: the caught exception is raised again as it is.
publish_files_except_Reraise(item, e) == Raise(e.type, e.msg)

\* except Exception as e: raise TankError("Failed to publish file for item '%s': %s")
publish_files_except(item, e) ==
    Raise("TankError",
          <<Text("Failed to publish file for item"), ItemName(item), Text(":")>> \o e.msg)

\* ------------------------------------------------------------------------
\* Mipmap hook actions

\* The type of an item: generic items and textures alternate.
ItemType(i) == IF i % 2 = 1 THEN "generic.item" ELSE "mari.texture"

\* The item publish_files runs on: a texture item.
MipItem == CHOOSE i \in Items : ItemType(i) = "mari.texture"

FrameNumbers == {0, 1001, 1002}
SourceSet == {Path("a", f, FALSE) : f \in {<<>>} \cup {<<n>> : n \in FrameNumbers}}
Targets == {Path("out", <<>>, TRUE), Path("out", <<>>, FALSE)}

\* What the upstream plugin may have left in its local properties on the item.
UpstreamScopes ==
    {NoScope, EmptyScope}
      \cup {[EmptyScope EXCEPT !.publish_path = Path("a", <<>>, sp)] : sp \in BOOLEAN}

NoLocalProps == [i \in Items |-> [h \in Hooks |-> NoScope]]

MipIdle ==
    /\ target_seq_path = <<>>
    /\ disk = {}
    /\ pc = "idle"
    /\ caller = "none"
    /\ dep_result = <<>>
    /\ source_paths = <<>>
    /\ idx = 0
    /\ mipmap_paths = <<>>
    /\ conv_log = <<>>
    /\ caught = <<>>
    /\ result = <<>>

\* publish_files(task_settings, item, publish_path) is entered.
InitPublishFiles ==
    /\ caller = "publish_files"
    /\ pc = "folder"
    /\ publish_plugins \in Configs
    /\ \E sc \in UpstreamScopes :
         local_props = [NoLocalProps EXCEPT ![MipItem][HookOf(INPUT_PLUGIN_NAME)] = sc]
    /\ target_seq_path \in Targets
    /\ disk \in SUBSET FrameNumbers
    /\ source_paths = <<>>
    /\ idx = 0

\* create_mipmaps_for_seq(source_paths, target_seq_path) is entered on its own.
InitCreateMipmaps ==
    /\ caller = "direct"
    /\ pc = "loop"
    /\ publish_plugins = <<>>
    /\ local_props = NoLocalProps
    /\ target_seq_path \in Targets
    /\ disk = {}
    /\ source_paths \in SeqsUpTo(SourceSet, MaxSources)
    /\ idx = 1

InitMipVars ==
    /\ InitPublishFiles \/ InitCreateMipmaps
    /\ dep_result = NoResult
    /\ mipmap_paths = <<>>
    /\ conv_log = <<>>
    /\ caught = NoExc
    /\ result = NoResult

\* os.path.dirname(target_path): the folder, without the file's name
dirname(path) == Path("", <<>>, FALSE)

\* An exception leaves the code: inside publish_files' try it is caught and
\* wrapped, in a direct call it reaches the caller.
Escapes(exc) ==
    /\ pc' = "done"
    /\ IF caller = "publish_files"
       THEN /\ caught' = exc
            /\ result' = publish_files_except(MipItem, exc)
       ELSE /\ caught' = caught
            /\ result' = Raise(exc.type, exc.msg)

\* ensure_folder_exists(publish_folder) succeeds
EnsureFolderOk ==
    /\ UNCHANGED <<treeVars, cfgVars, runVars>>
    /\ pc = "folder"
    /\ pc' = "deps"
    /\ UNCHANGED <<target_seq_path, disk, caller, dep_result, source_paths, idx,
                   mipmap_paths, conv_log, caught, result>>

\* ensure_folder_exists(publish_folder) raises: it knows the folder alone
EnsureFolderFails ==
    /\ UNCHANGED <<treeVars, cfgVars, runVars>>
    /\ pc = "folder"
    /\ Escapes([type |-> "OSError",
                msg |-> <<Text("cannot create folder"), Fmt(dirname(target_seq_path))>>])
    /\ UNCHANGED <<target_seq_path, disk, caller, dep_result, source_paths, idx,
                   mipmap_paths, conv_log>>

\* source_path_list = self._get_dependency_paths(task_settings, item)
GetDependencyPaths ==
    /\ UNCHANGED <<treeVars, cfgVars, runVars>>
    /\ pc = "deps"
    /\ LET r == get_dependency_paths(publish_plugins, local_props[MipItem])
       IN  /\ dep_result' = r
           /\ IF r.kind = "raise"
              THEN Escapes(r.exc)
              ELSE /\ pc' = "expand"
                   /\ UNCHANGED <<caught, result>>
    /\ UNCHANGED <<target_seq_path, disk, caller, source_paths, idx, mipmap_paths,
                   conv_log>>

\* The expansion loop of publish_files over source_path_list.
ExpandSources ==
    /\ UNCHANGED <<treeVars, cfgVars, runVars>>
    /\ pc = "expand"
    /\ LET source_path == dep_result.value[1]
       IN  IF source_path = NonePath
           THEN /\ Escapes([type |-> "TypeError", msg |-> <<Text("expected a path")>>])
                /\ UNCHANGED <<source_paths, idx>>
           ELSE /\ source_paths' = IF IsSequence(source_path)
                                   THEN get_sequence_path_files(source_path, disk)
                                   ELSE <<source_path>>
                /\ idx' = 1
                /\ pc' = "loop"
                /\ UNCHANGED <<caught, result>>
    /\ UNCHANGED <<target_seq_path, disk, caller, dep_result, mipmap_paths, conv_log>>

\* One turn of the loop of create_mipmaps_for_seq: _create_mipmap returns ok.
CreateMipmap(ok) ==
    /\ UNCHANGED <<treeVars, cfgVars, runVars>>
    /\ pc = "loop"
    /\ idx <= Len(source_paths)
    /\ LET tp == target_path_for(source_paths[idx], target_seq_path)
       IN  /\ tp.kind = "return"
           /\ mipmap_paths' = collect_mipmap(mipmap_paths, tp.value[1], ok)
           /\ conv_log' = Append(conv_log,
                                 [src |-> source_paths[idx], tgt |-> tp.value[1], ok |-> ok])
    /\ idx' = idx + 1
    /\ UNCHANGED <<target_seq_path, disk, pc, caller, dep_result, source_paths, caught,
                   result>>

\* One turn of the loop: the source has a frame, the target has no frame field.
FrameMismatch ==
    /\ UNCHANGED <<treeVars, cfgVars, runVars>>
    /\ pc = "loop"
    /\ idx <= Len(source_paths)
    /\ LET tp == target_path_for(source_paths[idx], target_seq_path)
       IN  /\ tp.kind = "raise"
           /\ Escapes(tp.exc)
    /\ UNCHANGED <<target_seq_path, disk, caller, dep_result, source_paths, idx,
                   mipmap_paths, conv_log>>

\* One turn of the loop: _create_mipmap raises (the image library fails).
CreateMipmapRaises ==
    /\ UNCHANGED <<treeVars, cfgVars, runVars>>
    /\ pc = "loop"
    /\ idx <= Len(source_paths)
    /\ target_path_for(source_paths[idx], target_seq_path).kind = "return"
    /\ Escapes([type |-> "RuntimeError", msg |-> <<Text("image library error")>>])
    /\ UNCHANGED <<target_seq_path, disk, caller, dep_result, source_paths, idx,
                   mipmap_paths, conv_log>>

\* return mipmap_paths, and publish_files returns it in turn.
ReturnMipmaps ==
    /\ UNCHANGED <<treeVars, cfgVars, runVars>>
    /\ pc = "loop"
    /\ idx > Len(source_paths)
    /\ pc' = "done"
    /\ result' = Return(mipmap_paths)
    /\ UNCHANGED <<target_seq_path, disk, caller, dep_result, source_paths, idx,
                   mipmap_paths, conv_log, caught>>

NextMip ==
    \/ EnsureFolderOk
    \/ EnsureFolderFails
    \/ GetDependencyPaths
    \/ ExpandSources
    \/ \E ok \in BOOLEAN : CreateMipmap(ok)
    \/ FrameMismatch
    \/ CreateMipmapRaises
    \/ ReturnMipmaps

\* No tree is built.
TreeIdle ==
    /\ tasks = <<>>
    /\ created = {}
    /\ check_state = <<>>
    /\ checkbox_enabled = <<>>
    /\ lastCall = <<>>

CfgIdle ==
    /\ publish_plugins = <<>>
    /\ local_props = <<>>


\* ------------------------------------------------------------------------
\* Lifecycle run: accept, validate, publish, finalize over the tasks

\* item_filters / "Item Type Filters" of a plugin
ItemFilters(name) ==
    IF name = LOCAL_PLUGIN_NAME THEN {"generic.item"} ELSE {"mari.channel", "mari.texture"}

\* A Task pairs an item with a plugin whose filters match the item's type.
RunTasks == {t \in Items \X PluginNames : ItemType(t[1]) \in ItemFilters(t[2])}

\* The configurations of a run: every plugin configured once, in any order.
RunConfigs == {c \in Configs_All : Len(c) = Cardinality(PluginNames)}

PosOf(name, cfg) == CHOOSE k \in DOMAIN cfg : cfg[k].name = name

\* Tree order: items in order, the tasks of an item in configuration order.
Rank(t, cfg) == (t[1] - 1) * Len(cfg) + PosOf(t[2], cfg)
FirstOf(ts, cfg) == CHOOSE t \in ts : \A u \in ts : Rank(t, cfg) <= Rank(u, cfg)

\* The path the texture publish of an item produces.
TexturePath(i) == Path("a", <<i>>, FALSE)

\* item.local_properties[prop] = value, run inside the plugin with this key
local_write(props, i, key, prop, value) ==
    IF prop = "publish_path"
    THEN [props EXCEPT ![i][key].present = TRUE, ![i][key].publish_path = value]
    ELSE [props EXCEPT ![i][key].present = TRUE, ![i][key].plugin_name = value]

\* item.local_properties.plugin_name, run inside the plugin with this key
local_read_plugin_name(props, i, key) == props[i][key].plugin_name

\* GenericLocalPlugin.accept
generic_local_accept(props, i) ==
    [props |-> local_write(props, i, HookOf(LOCAL_PLUGIN_NAME), "plugin_name", "local"),
     accepted |-> TRUE]

\* GenericLocalPlugin.validate
generic_local_validate(props, i, env) ==
    IF env /\ local_read_plugin_name(props, i, HookOf(LOCAL_PLUGIN_NAME)) = "local"
    THEN "raise"
    ELSE "true"

\* What accept of the task's plugin can answer: the local properties after it,
\* accepted, and the checked and enabled defaults of the task.
AcceptOutcomes(t) ==
    IF t[2] = LOCAL_PLUGIN_NAME
    THEN {[props |-> generic_local_accept(local_props, t[1]).props,
           accepted |-> generic_local_accept(local_props, t[1]).accepted,
           checked |-> TRUE, enabled |-> TRUE]}
    ELSE [props : {local_props}, accepted : BOOLEAN, checked : BOOLEAN, enabled : BOOLEAN]

\* What validate of the task's plugin can answer.
ValidateOutcomes(t) ==
    CASE t[2] = LOCAL_PLUGIN_NAME -> {generic_local_validate(local_props, t[1], env_test)}
      [] t[2] = MIPMAPS_PLUGIN_NAME -> {"true", "false"}
      [] OTHER -> {"true", "false", "raise"}

\* What publish of the task's plugin can do: the local properties after it, the
\* dependency resolution it made, and whether it raised.
PublishOutcomes(t) ==
    CASE t[2] = LOCAL_PLUGIN_NAME ->
            {[props |-> local_props, dep |-> NoResult, raised |-> FALSE]}
      [] t[2] = MIPMAPS_PLUGIN_NAME ->
            LET r == get_dependency_paths(publish_plugins, local_props[t[1]])
            IN  IF r.kind = "raise"
                THEN {[props |-> local_props, dep |-> r, raised |-> TRUE]}
                ELSE [props : {local_props}, dep : {r}, raised : BOOLEAN]
      [] OTHER ->
            {[props |-> local_props, dep |-> NoResult, raised |-> TRUE],
             [props |-> local_write(local_props, t[1], HookOf(t[2]), "publish_path",
                                    TexturePath(t[1])),
              dep |-> NoResult, raised |-> FALSE]}

\* Whether finalize of the task's plugin can raise.
FinalizeOutcomes(t) == IF t[2] = LOCAL_PLUGIN_NAME THEN {FALSE} ELSE BOOLEAN

Phases == <<"accept", "validate", "publish", "finalize", "done">>
PhaseAfter(ph) == Phases[(CHOOSE k \in DOMAIN Phases : Phases[k] = ph) + 1]

RunIdle ==
    /\ env_test = FALSE
    /\ phase = "idle"
    /\ todo = {}
    /\ task_state = <<>>
    /\ flags = <<>>
    /\ fault = <<>>
    /\ val_read = <<>>
    /\ resolved = <<>>

InitRunVars ==
    /\ env_test \in BOOLEAN
    /\ phase = "accept"
    /\ todo = RunTasks
    /\ task_state = [t \in RunTasks |-> "pending"]
    /\ flags = [t \in RunTasks |-> [checked |-> FALSE, enabled |-> FALSE]]
    /\ fault = [t \in RunTasks |-> "none"]
    /\ val_read = [t \in RunTasks |-> NoneValue]
    /\ resolved = [i \in Items |-> NoResult]
    /\ publish_plugins \in RunConfigs
    /\ local_props = NoLocalProps

\* The task the run visits next.
CurTask == FirstOf(todo, publish_plugins)

Visited == todo' = todo \ {CurTask}

\* The task takes part in validate, publish and finalize.
Runnable(t) ==
    /\ task_state[t] \notin {"pending", "rejected"}
    /\ flags[t].checked
    /\ flags[t].enabled

\* Mutant: a failed validation ends the whole run.
ValidateFailed_Abort(t, how) ==
    /\ task_state' = [task_state EXCEPT ![t] = "error"]
    /\ fault' = [fault EXCEPT ![t] = how]
    /\ phase' = "done"
    /\ todo' = {}

\* validate returned false or raised: the task alone goes to error.
ValidateFailed(t, how) ==
    /\ task_state' = [task_state EXCEPT ![t] = "error"]
    /\ fault' = [fault EXCEPT ![t] = how]
    /\ phase' = phase
    /\ Visited

\* accept phase, one task
AcceptStep ==
    /\ phase = "accept"
    /\ todo # {}
    /\ \E out \in AcceptOutcomes(CurTask) :
         /\ local_props' = out.props
         /\ task_state' = [task_state EXCEPT ![CurTask] =
                             IF out.accepted THEN "accepted" ELSE "rejected"]
         /\ flags' = [flags EXCEPT ![CurTask] =
                        [checked |-> out.checked, enabled |-> out.enabled]]
    /\ Visited
    /\ UNCHANGED <<treeVars, mipVars, publish_plugins, env_test, phase, fault, val_read,
                   resolved>>

\* validate phase, one task that is accepted, checked and enabled
ValidateStep ==
    /\ phase = "validate"
    /\ todo # {}
    /\ Runnable(CurTask)
    /\ task_state[CurTask] = "accepted"
    /\ val_read' = [val_read EXCEPT ![CurTask] =
                      IF CurTask[2] = LOCAL_PLUGIN_NAME
                      THEN local_read_plugin_name(local_props, CurTask[1],
                                                  HookOf(LOCAL_PLUGIN_NAME))
                      ELSE NoneValue]
    /\ \E out \in ValidateOutcomes(CurTask) :
         IF out = "true"
         THEN /\ task_state' = [task_state EXCEPT ![CurTask] = "validated"]
              /\ Visited
              /\ UNCHANGED <<fault, phase>>
         ELSE ValidateFailed(CurTask, IF out = "false" THEN "validate_false"
                                                         ELSE "validate_raise")
    /\ UNCHANGED <<treeVars, mipVars, cfgVars, env_test, flags, resolved>>

\* publish phase, one validated task
PublishStep ==
    /\ phase = "publish"
    /\ todo # {}
    /\ task_state[CurTask] = "validated"
    /\ \E out \in PublishOutcomes(CurTask) :
         /\ local_props' = out.props
         /\ resolved' = IF CurTask[2] = MIPMAPS_PLUGIN_NAME
                        THEN [resolved EXCEPT ![CurTask[1]] = out.dep]
                        ELSE resolved
         /\ task_state' = [task_state EXCEPT ![CurTask] =
                             IF out.raised THEN "error" ELSE "published"]
         /\ fault' = [fault EXCEPT ![CurTask] = IF out.raised THEN "publish" ELSE @]
    /\ Visited
    /\ UNCHANGED <<treeVars, mipVars, publish_plugins, env_test, phase, flags, val_read>>

\* finalize phase, one published task: a fault is logged, the task stays published
FinalizeStep ==
    /\ phase = "finalize"
    /\ todo # {}
    /\ task_state[CurTask] = "published"
    /\ \E raised \in FinalizeOutcomes(CurTask) :
         fault' = [fault EXCEPT ![CurTask] = IF raised THEN "finalize" ELSE @]
    /\ task_state' = [task_state EXCEPT ![CurTask] = "finalized"]
    /\ Visited
    /\ UNCHANGED <<treeVars, mipVars, cfgVars, env_test, phase, flags, val_read, resolved>>

\* The phase does not apply to the task: it is passed over.
SkipStep ==
    /\ phase \in {"validate", "publish", "finalize"}
    /\ todo # {}
    /\ CASE phase = "validate" -> ~(Runnable(CurTask) /\ task_state[CurTask] = "accepted")
         [] phase = "publish" -> task_state[CurTask] # "validated"
         [] OTHER -> task_state[CurTask] # "published"
    /\ Visited
    /\ UNCHANGED <<treeVars, mipVars, cfgVars, env_test, phase, task_state, flags, fault,
                   val_read, resolved>>

\* Every task was visited: the next phase starts.
NextPhase ==
    /\ phase \in {"accept", "validate", "publish", "finalize"}
    /\ todo = {}
    /\ phase' = PhaseAfter(phase)
    /\ todo' = IF phase = "finalize" THEN {} ELSE RunTasks
    /\ UNCHANGED <<treeVars, mipVars, cfgVars, env_test, task_state, flags, fault, val_read,
                   resolved>>

NextRun ==
    \/ AcceptStep
    \/ ValidateStep
    \/ PublishStep
    \/ FinalizeStep
    \/ SkipStep
    \/ NextPhase

InitRun == TreeIdle /\ MipIdle /\ InitRunVars

SpecRun == InitRun /\ [][NextRun]_vars

\* The run is one thread of control: it takes its next step whenever it has one.
SpecRunFair == SpecRun /\ WF_vars(NextRun)

\* ------------------------------------------------------------------------
\* Tree actions


\* TreeNodeTask.__init__(task, parent)
NodeInit(n, task) ==
    /\ UNCHANGED <<cfgVars, mipVars, runVars>>
    /\ n \notin created
    /\ LET tk == [tasks EXCEPT ![n] = task]
           cr == created \cup {n}
       IN  /\ tasks' = tk
           /\ created' = cr
           /\ check_state' = set_check_state(tk, cr, check_state, n, Checked, FALSE)
           /\ checkbox_enabled' =
                [checkbox_enabled EXCEPT ![n] = set_check_enabled(tk, n, task.enabled)]
    /\ lastCall' = [op |-> "init", node |-> n, state |-> Checked, all |-> FALSE, ret |-> <<>>]

\* node.set_check_state(state, apply_to_all_plugins)
SetCheckState(n, state, all) ==
    /\ UNCHANGED <<cfgVars, mipVars, runVars>>
    /\ n \in created
    /\ check_state' = set_check_state(tasks, created, check_state, n, state, all)
    /\ lastCall' = [op |-> "set_check_state", node |-> n, state |-> state, all |-> all,
                    ret |-> <<>>]
    /\ UNCHANGED <<tasks, created, checkbox_enabled>>

\* node.set_check_enabled(state)
SetCheckEnabled(n, state) ==
    /\ UNCHANGED <<cfgVars, mipVars, runVars>>
    /\ n \in created
    /\ checkbox_enabled' =
         [checkbox_enabled EXCEPT ![n] = set_check_enabled(tasks, n, state)]
    /\ lastCall' = [op |-> "set_check_enabled", node |-> n,
                    state |-> IF state THEN Checked ELSE Unchecked, all |-> FALSE,
                    ret |-> <<>>]
    /\ UNCHANGED <<tasks, created, check_state>>

\* node.create_summary()
CreateSummary(n) ==
    /\ UNCHANGED <<cfgVars, mipVars, runVars>>
    /\ n \in created
    /\ lastCall' = [op |-> "create_summary", node |-> n, state |-> check_state[n],
                    all |-> FALSE, ret |-> create_summary(tasks, check_state, n)]
    /\ UNCHANGED <<tasks, created, check_state, checkbox_enabled>>

NextTree ==
    \/ \E n \in Nodes : \E task \in TaskSet(n) : NodeInit(n, task)
    \/ \E n \in Nodes : \E state \in CheckStates : \E all \in BOOLEAN :
          SetCheckState(n, state, all)
    \/ \E n \in Nodes : \E state \in BOOLEAN : SetCheckEnabled(n, state)
    \/ \E n \in Nodes : CreateSummary(n)

InitMip == TreeIdle /\ RunIdle /\ InitMipVars

SpecMip == InitMip /\ [][NextMip]_vars

\* The tree before any task node is constructed.
InitTreeVars ==
    /\ tasks = [n \in Nodes |-> NoTask]
    /\ created = {}
    /\ check_state = [n \in Nodes |-> Unchecked]
    /\ checkbox_enabled = [n \in Nodes |-> FALSE]
    /\ lastCall = NoCall

InitTree == InitTreeVars /\ CfgIdle /\ MipIdle /\ RunIdle

SpecTree == InitTree /\ [][NextTree]_vars

\* ------------------------------------------------------------------------
\* Properties of the task node (SpecTree)

Floored(n) == ~tasks[n].enabled /\ ~tasks[n].active

\* C1, as stated: a node whose task has enabled = false is never left Checked,
\* whatever the task's active flag is.
C1_DisabledNeverChecked ==
    \A n \in created : ~tasks[n].enabled => check_state[n] # Checked

\* C1, amended: a node whose task has enabled = false and active = false is
\* never left Checked, by its construction or by any set_check_state call.
C1_DisabledInactiveNeverChecked ==
    \A n \in created : Floored(n) => check_state[n] # Checked

\* C1, its case: Checked was just asked of a disabled, inactive task's node.
C1_Witness ==
    /\ lastCall.op = "set_check_state"
    /\ lastCall.state = Checked
    /\ Floored(lastCall.node)
    /\ check_state[lastCall.node] = Unchecked

\* The step is a set_check_state(state, apply_to_all_plugins=True) call.
ApplyToAllCall == lastCall'.op = "set_check_state" /\ lastCall'.all

SamePlugin(m, n) == tasks[m].plugin = tasks[n].plugin

\* C2, as stated: with apply_to_all_plugins the requested state is given to every
\* task node of the calling node's plugin, and no node of another plugin changes.
C2_RequestedStateToSamePlugin ==
    [][ApplyToAllCall =>
         \A m \in created :
            check_state'[m] = IF SamePlugin(m, lastCall'.node)
                              THEN lastCall'.state
                              ELSE check_state[m]]_vars

\* C2, amended: with apply_to_all_plugins every task node of the calling node's
\* plugin takes the requested state, except that a node whose task is disabled
\* and inactive is left Unchecked; no node of another plugin changes.
C2_FlooredStateToSamePlugin ==
    [][ApplyToAllCall =>
         \A m \in created :
            check_state'[m] = IF SamePlugin(m, lastCall'.node)
                              THEN IF Floored(m) THEN Unchecked ELSE lastCall'.state
                              ELSE check_state[m]]_vars

\* C2, its case: an apply-to-all Checked call reached another node of the plugin
\* and left a node of another plugin Unchecked.
C2_Witness ==
    /\ lastCall.op = "set_check_state"
    /\ lastCall.all
    /\ lastCall.state = Checked
    /\ \E m \in created \ {lastCall.node} :
          SamePlugin(m, lastCall.node) /\ check_state[m] = Checked
    /\ \E k \in created :
          ~SamePlugin(k, lastCall.node) /\ check_state[k] = Unchecked

SummaryOf(n) == IF check_state[n] = Checked THEN <<PluginName(tasks[n].plugin)>> ELSE <<>>

\* C9, as stated: create_summary returns the plugin name alone when the node is
\* checked and the empty list when it is not, and the node of a disabled task
\* never contributes its plugin name.
C9_SummaryDisabledEmpty ==
    lastCall.op = "create_summary" =>
        /\ lastCall.ret = SummaryOf(lastCall.node)
        /\ ~tasks[lastCall.node].enabled => lastCall.ret = <<>>

\* C9, amended: create_summary returns the plugin name alone when the node is
\* checked and the empty list when it is not, and the node of a disabled and
\* inactive task never contributes its plugin name.
C9_SummaryFlooredEmpty ==
    lastCall.op = "create_summary" =>
        /\ lastCall.ret = SummaryOf(lastCall.node)
        /\ Floored(lastCall.node) => lastCall.ret = <<>>

\* C9, its case: the summary of an unchecked node of a disabled, inactive task
\* was taken while another node's summary would name its plugin.
C9_Witness ==
    /\ lastCall.op = "create_summary"
    /\ Floored(lastCall.node)
    /\ lastCall.ret = <<>>
    /\ \E m \in created : check_state[m] = Checked

\* C10: after set_check_enabled(state) the checkbox is enabled exactly when state
\* and the task's enabled flag are both true, and the checkbox of a task with
\* enabled = false is never enabled.
C10_CheckboxFollowsTask ==
    /\ \A n \in created : ~tasks[n].enabled => ~checkbox_enabled[n]
    /\ lastCall.op = "set_check_enabled" =>
          checkbox_enabled[lastCall.node]
             = (lastCall.state = Checked /\ tasks[lastCall.node].enabled)
    /\ lastCall.op = "init" =>
          checkbox_enabled[lastCall.node] = tasks[lastCall.node].enabled

\* C10, its case: set_check_enabled(True) was just called on a disabled task's node.
C10_Witness ==
    /\ lastCall.op = "set_check_enabled"
    /\ lastCall.state = Checked
    /\ ~tasks[lastCall.node].enabled
    /\ ~checkbox_enabled[lastCall.node]

\* ------------------------------------------------------------------------
\* Properties of the mipmap hook (SpecMip)

HasInputPlugin(plugins) == \E k \in DOMAIN plugins : plugins[k].name = INPUT_PLUGIN_NAME

ConfigurationError(r) == r.kind = "raise" /\ r.exc.type = "TankError"

C5_FrameSourceNeverOntoLiteralTarget ==
    \A k \in DOMAIN conv_log :
        conv_log[k].src.frame # <<>> =>
            /\ target_seq_path.spec
            /\ conv_log[k].tgt = Path(target_seq_path.stem, conv_log[k].src.frame, FALSE)

RECURSIVE OkTargets(_)
OkTargets(log) ==
    IF log = <<>> THEN <<>>
    ELSE (IF Head(log).ok THEN <<Head(log).tgt>> ELSE <<>>) \o OkTargets(Tail(log))

\* C6: a conversion that returns false does not stop create_mipmaps_for_seq: the
\* sources are converted one after the other whatever the earlier conversions
\* returned, and the list built and returned is, in source order, the targets of
\* the conversions that succeeded.
C6_FailedConversionSkipped ==
    /\ mipmap_paths = OkTargets(conv_log)
    /\ \A k \in DOMAIN conv_log : conv_log[k].src = source_paths[k]
    /\ pc = "loop" => Len(conv_log) = idx - 1
    /\ result.kind = "return" =>
          /\ Len(conv_log) = Len(source_paths)
          /\ result.value = OkTargets(conv_log)

\* C6, its case: a list was returned after a failed conversion that a successful
\* one followed.
C6_Witness ==
    /\ result.kind = "return"
    /\ \E k \in DOMAIN conv_log :
          /\ ~conv_log[k].ok
          /\ k + 1 \in DOMAIN conv_log
          /\ conv_log[k + 1].ok
    /\ Len(result.value) < Len(source_paths)

EndsWith(msg, tail) ==
    /\ Len(msg) >= Len(tail)
    /\ SubSeq(msg, Len(msg) - Len(tail) + 1, Len(msg)) = tail

\* C7, as stated: an exception raised inside publish_files leaves it as one
\* TankError whose message carries the item's name and the target path.
C7_FaultNamesItemAndTarget ==
    (caller = "publish_files" /\ result.kind = "raise") =>
        /\ result.exc.type = "TankError"
        /\ ItemName(MipItem) \in Range(result.exc.msg)
        /\ Fmt(target_seq_path) \in Range(result.exc.msg)

\* C7, amended: an exception raised inside publish_files (folder creation,
\* dependency resolution, sequence expansion, mipmap creation) leaves it as one
\* TankError whose message carries the item's name and the text of the exception
\* caught; no other exception type leaves publish_files and no list is returned.
C7_FaultNamesItemAndCause ==
    caller = "publish_files" =>
        /\ (caught # NoExc) <=> (result.kind = "raise")
        /\ result.kind = "raise" =>
              /\ result.exc.type = "TankError"
              /\ ItemName(MipItem) \in Range(result.exc.msg)
              /\ EndsWith(result.exc.msg, caught.msg)
              /\ result.value = <<>>

\* C7, its case: publish_files caught an exception that is no TankError.
C7_Witness ==
    /\ caller = "publish_files"
    /\ result.kind = "raise"
    /\ caught.type = "AttributeError"

\* ------------------------------------------------------------------------
\* Properties of the lifecycle run (SpecRun, SpecRunFair)

ValidateRan(t) == task_state[t] \in {"validated", "published", "finalized", "error"}

Published(t) == t \in RunTasks /\ task_state[t] \in {"published", "finalized"}

\* C4: a local property a plugin wrote on an item is read back unchanged by the
\* plugin's own later phase (plugin_name, written in accept, read in validate)
\* and by the plugin that resolves the writer by its configured name
\* (publish_path), and is absent from the local properties of a plugin that did
\* not write it.
C4_LocalPropertiesRoundTrip ==
    /\ \A t \in RunTasks :
          (t[2] = LOCAL_PLUGIN_NAME /\ ValidateRan(t)) => val_read[t] = "local"
    /\ \A i \in Items :
          ( /\ resolved[i].kind # "none"
            /\ Published(<<i, INPUT_PLUGIN_NAME>>)
            /\ PosOf(INPUT_PLUGIN_NAME, publish_plugins)
                 < PosOf(MIPMAPS_PLUGIN_NAME, publish_plugins) )
          => resolved[i] = Return(<<TexturePath(i)>>)
    /\ \A i \in Items : \A name \in PluginNames :
          LET sc == local_props[i][HookOf(name)]
          IN  /\ name # INPUT_PLUGIN_NAME => sc.publish_path = NonePath
              /\ name # LOCAL_PLUGIN_NAME => sc.plugin_name = NoneValue
              /\ (<<i, name>> \notin RunTasks \/ name = MIPMAPS_PLUGIN_NAME) => sc = NoScope

\* C4, its case: the mipmap task resolved the path the texture task wrote, and
\* the local plugin read its own plugin_name back.
C4_Witness ==
    /\ \E i \in Items :
          /\ resolved[i] = Return(<<TexturePath(i)>>)
          /\ local_props[i][HookOf(MIPMAPS_PLUGIN_NAME)] = NoScope
    /\ \E t \in RunTasks : val_read[t] = "local"

ValidateFault(t) == fault[t] \in {"validate_false", "validate_raise"}

\* The task was accepted, checked and enabled and none of its own validate and
\* publish phases failed.
OwnPhasesPass(t) == Runnable(t) /\ fault[t] \in {"none", "finalize"}

====
